---- MODULE Spec2Model ----
(***************************************************************************)
(* Model of the collision-constraint code of the IPC toolkit:              *)
(*   - ipc::Constraints, the container of the five constraint sequences    *)
(*     (size, num_constraints, empty, clear, operator[]);                  *)
(*   - the barrier adapter of CollisionConstraint and the potential,       *)
(*     gradient and Hessian of the five constraint variants;               *)
(*   - the three smooth friction mollifier functions.                      *)
(* Real numbers are modelled exactly: integers where the inputs are        *)
(* integers, rationals <<numerator, denominator>> for the friction         *)
(* functions.                                                              *)
(***************************************************************************)
EXTENDS Integers, Sequences, FiniteSets, TLC

VARIABLES
    vv_constraints,  \* std::vector<VertexVertexConstraint>
    ev_constraints,  \* std::vector<EdgeVertexConstraint>
    ee_constraints,  \* std::vector<EdgeEdgeConstraint>
    fv_constraints,  \* std::vector<FaceVertexConstraint>
    pv_constraints,  \* std::vector<PlaneVertexConstraint>
    ret,             \* outcome of the last call on the constraint set
    pc,              \* position of the caller of a pure function
    env,             \* inputs of a potential call (constraint, parameters, primitives)
    res,             \* outcome of a potential call
    fin,             \* inputs of a friction mollifier call
    fout             \* outcome of a friction mollifier call

seqs == <<vv_constraints, ev_constraints, ee_constraints, fv_constraints,
          pv_constraints>>
vars == <<vv_constraints, ev_constraints, ee_constraints, fv_constraints,
          pv_constraints, ret, pc, env, res, fin, fout>>

-----------------------------------------------------------------------------
(* Bounds *)

MaxSize == 4     \* most instances held by the constraint set
MaxMult == 2     \* largest multiplicity stored in the constraint set
SizeTBits == 8   \* modelled width of size_t

SizeTMod == 2 ^ SizeTBits
MaxIdx == MaxSize + 1
IdxInputs == 0..MaxIdx \cup {SizeTMod - 1}

-----------------------------------------------------------------------------
(* The constraint set *)

VVValues == [vertex0_index : {0}, vertex1_index : {1}, multiplicity : 1..MaxMult]
EVValues == [edge_index : {0}, vertex_index : {2}, multiplicity : 1..MaxMult]
EEValues == [edge0_index : {0}, edge1_index : {1}, eps_x : {1}]
FVValues == [face_index : {0}, vertex_index : {3}]
PVValues == [plane_origin : {0}, plane_normal : {1}, vertex_index : {4}]

NoRet == [op |-> "none", idx |-> 0, status |-> "ok", kind |-> "none",
          pos |-> 0, val |-> 0, wrapped |-> FALSE]

\* Constraints::size
Size ==
    Len(vv_constraints) + Len(ev_constraints) + Len(ee_constraints)
        + Len(fv_constraints) + Len(pv_constraints)

\* the accumulation loop of num_constraints over one sequence
RECURSIVE SumMultiplicity(_, _)
SumMultiplicity(s, acc) ==
    IF s = <<>> THEN acc
    ELSE SumMultiplicity(Tail(s), (acc + Head(s).multiplicity) % SizeTMod)

NumConstraintsSizeOnly ==
    Size

\* Constraints::num_constraints
NumConstraints ==
    LET n1 == SumMultiplicity(vv_constraints, 0)
        n2 == SumMultiplicity(ev_constraints, n1)
    IN (n2 + Len(ee_constraints) + Len(fv_constraints) + Len(pv_constraints))
           % SizeTMod

\* Constraints::empty
Empty ==
    /\ vv_constraints = <<>>
    /\ ev_constraints = <<>>
    /\ ee_constraints = <<>>
    /\ fv_constraints = <<>>
    /\ pv_constraints = <<>>

\* idx -= n on a size_t
SubSizeTNoop(idx, n) == idx

SubSizeT(idx, n) == (idx - n) % SizeTMod

Found(idx0, kind, s, i, w) ==
    [op |-> "index", idx |-> idx0, status |-> "ok", kind |-> kind,
     pos |-> i, val |-> s[i + 1], wrapped |-> w]

OutOfRange(idx0, w) ==
    [op |-> "index", idx |-> idx0, status |-> "out_of_range", kind |-> "none",
     pos |-> 0, val |-> 0, wrapped |-> w]

IndexNoEarlyReturn(idx0) ==
    LET i1 == SubSizeT(idx0, Len(vv_constraints))
        w1 == idx0 < Len(vv_constraints)
        i2 == SubSizeT(i1, Len(ev_constraints))
        w2 == w1 \/ i1 < Len(ev_constraints)
        i3 == SubSizeT(i2, Len(ee_constraints))
        w3 == w2 \/ i2 < Len(ee_constraints)
        i4 == SubSizeT(i3, Len(fv_constraints))
        w4 == w3 \/ i3 < Len(fv_constraints)
    IN  IF i4 < Len(pv_constraints)
        THEN Found(idx0, "pv", pv_constraints, i4, w4)
        ELSE OutOfRange(idx0, w4)

\* Constraints::operator[] (non-const)
Index(idx0) ==
    IF idx0 < 0 THEN OutOfRange(idx0, FALSE)
    ELSE IF idx0 < Len(vv_constraints)
    THEN Found(idx0, "vv", vv_constraints, idx0, FALSE)
    ELSE LET i1 == SubSizeT(idx0, Len(vv_constraints))
             w1 == idx0 < Len(vv_constraints)
    IN  IF i1 < Len(ev_constraints)
        THEN Found(idx0, "ev", ev_constraints, i1, w1)
        ELSE LET i2 == SubSizeT(i1, Len(ev_constraints))
                 w2 == w1 \/ i1 < Len(ev_constraints)
    IN  IF i2 < Len(ee_constraints)
        THEN Found(idx0, "ee", ee_constraints, i2, w2)
        ELSE LET i3 == SubSizeT(i2, Len(ee_constraints))
                 w3 == w2 \/ i2 < Len(ee_constraints)
    IN  IF i3 < Len(fv_constraints)
        THEN Found(idx0, "fv", fv_constraints, i3, w3)
        ELSE LET i4 == SubSizeT(i3, Len(fv_constraints))
                 w4 == w3 \/ i3 < Len(fv_constraints)
    IN  IF i4 < Len(pv_constraints)
        THEN Found(idx0, "pv", pv_constraints, i4, w4)
        ELSE OutOfRange(idx0, w4)

\* Constraints::operator[] const
IndexConst(idx0) ==
    IF idx0 < 0 THEN OutOfRange(idx0, FALSE)
    ELSE IF idx0 < Len(vv_constraints)
    THEN Found(idx0, "vv", vv_constraints, idx0, FALSE)
    ELSE LET i1 == SubSizeT(idx0, Len(vv_constraints))
             w1 == idx0 < Len(vv_constraints)
    IN  IF i1 < Len(ev_constraints)
        THEN Found(idx0, "ev", ev_constraints, i1, w1)
        ELSE LET i2 == SubSizeT(i1, Len(ev_constraints))
                 w2 == w1 \/ i1 < Len(ev_constraints)
    IN  IF i2 < Len(ee_constraints)
        THEN Found(idx0, "ee", ee_constraints, i2, w2)
        ELSE LET i3 == SubSizeT(i2, Len(ee_constraints))
                 w3 == w2 \/ i2 < Len(ee_constraints)
    IN  IF i3 < Len(fv_constraints)
        THEN Found(idx0, "fv", fv_constraints, i3, w3)
        ELSE LET i4 == SubSizeT(i3, Len(fv_constraints))
                 w4 == w3 \/ i3 < Len(fv_constraints)
    IN  IF i4 < Len(pv_constraints)
        THEN Found(idx0, "pv", pv_constraints, i4, w4)
        ELSE OutOfRange(idx0, w4)

\* the state of the parts of the model a constraint-set step leaves alone
PureIdle == UNCHANGED <<pc, env, res, fin, fout>>

\* vv_constraints.push_back / emplace_back by the constraint builder
InsertVV ==
    /\ Size < MaxSize
    /\ \E c \in VVValues : vv_constraints' = Append(vv_constraints, c)
    /\ ret' = [NoRet EXCEPT !.op = "insert"]
    /\ UNCHANGED <<ev_constraints, ee_constraints, fv_constraints, pv_constraints>>
    /\ PureIdle

InsertEV ==
    /\ Size < MaxSize
    /\ \E c \in EVValues : ev_constraints' = Append(ev_constraints, c)
    /\ ret' = [NoRet EXCEPT !.op = "insert"]
    /\ UNCHANGED <<vv_constraints, ee_constraints, fv_constraints, pv_constraints>>
    /\ PureIdle

InsertEE ==
    /\ Size < MaxSize
    /\ \E c \in EEValues : ee_constraints' = Append(ee_constraints, c)
    /\ ret' = [NoRet EXCEPT !.op = "insert"]
    /\ UNCHANGED <<vv_constraints, ev_constraints, fv_constraints, pv_constraints>>
    /\ PureIdle

InsertFV ==
    /\ Size < MaxSize
    /\ \E c \in FVValues : fv_constraints' = Append(fv_constraints, c)
    /\ ret' = [NoRet EXCEPT !.op = "insert"]
    /\ UNCHANGED <<vv_constraints, ev_constraints, ee_constraints, pv_constraints>>
    /\ PureIdle

InsertPV ==
    /\ Size < MaxSize
    /\ \E c \in PVValues : pv_constraints' = Append(pv_constraints, c)
    /\ ret' = [NoRet EXCEPT !.op = "insert"]
    /\ UNCHANGED <<vv_constraints, ev_constraints, ee_constraints, fv_constraints>>
    /\ PureIdle

ClearKeepPV ==
    /\ vv_constraints' = <<>>
    /\ ev_constraints' = <<>>
    /\ ee_constraints' = <<>>
    /\ fv_constraints' = <<>>
    /\ pv_constraints' = pv_constraints
    /\ ret' = [NoRet EXCEPT !.op = "clear", !.val = Size]
    /\ PureIdle

\* Constraints::clear (ret.val notes how many instances were dropped)
Clear ==
    /\ vv_constraints' = <<>>
    /\ ev_constraints' = <<>>
    /\ ee_constraints' = <<>>
    /\ fv_constraints' = <<>>
    /\ pv_constraints' = <<>>
    /\ ret' = [NoRet EXCEPT !.op = "clear", !.val = Size]
    /\ PureIdle

\* a call of size()
CallSize ==
    /\ ret' = [NoRet EXCEPT !.op = "size", !.val = Size]
    /\ UNCHANGED seqs
    /\ PureIdle

\* a call of num_constraints()
CallNumConstraints ==
    /\ ret' = [NoRet EXCEPT !.op = "num_constraints", !.val = NumConstraints]
    /\ UNCHANGED seqs
    /\ PureIdle

\* a call of empty()
CallEmpty ==
    /\ ret' = [NoRet EXCEPT !.op = "empty", !.val = Empty]
    /\ UNCHANGED seqs
    /\ PureIdle

\* a call of operator[](idx) on a non-const set
CallIndex ==
    /\ \E idx \in IdxInputs : ret' = Index(idx)
    /\ UNCHANGED seqs
    /\ PureIdle

\* a call of operator[](idx) on a const set
CallIndexConst ==
    /\ \E idx \in IdxInputs : ret' = [IndexConst(idx) EXCEPT !.op = "index_const"]
    /\ UNCHANGED seqs
    /\ PureIdle

Idle == [kind |-> "none"]

\* a default-constructed Constraints
Init ==
    /\ vv_constraints = <<>>
    /\ ev_constraints = <<>>
    /\ ee_constraints = <<>>
    /\ fv_constraints = <<>>
    /\ pv_constraints = <<>>
    /\ ret = NoRet
    /\ pc = "idle"
    /\ env = Idle
    /\ res = Idle
    /\ fin = Idle
    /\ fout = Idle

Next ==
    \/ InsertVV
    \/ InsertEV
    \/ InsertEE
    \/ InsertFV
    \/ InsertPV
    \/ Clear
    \/ CallSize
    \/ CallNumConstraints
    \/ CallEmpty
    \/ CallIndex
    \/ CallIndexConst

Spec == Init /\ [][Next]_vars

-----------------------------------------------------------------------------
(* The barrier potential of one constraint.                                *)
(* A call is made on a constraint at given vertex positions. The positions *)
(* enter the code only through the external primitives (distance, its      *)
(* gradient and Hessian, the edge-edge mollifier and the distance-type     *)
(* classifier), so env holds what those primitives return at the current   *)
(* positions. The local stencil has one degree of freedom: gradients are   *)
(* 1-vectors and Hessians 1x1 matrices, on which project_to_psd is exact.  *)

MaxPotMult == 3  \* largest multiplicity of the constraint of a call
MaxMinDist == 1  \* largest minimum_distance
MaxDhat == 2     \* largest dhat
MaxDist == 4     \* largest Euclidean distance between the two primitives
MaxMoll == 2     \* largest mollifier value

\* what barrier, barrier_gradient and barrier_hessian return below the
\* activation distance; the last one is a primitive that breaks b'' >= 0
BarrierOracle ==
    { [b |-> 1, g |-> -1, h |-> 1],
      [b |-> 2, g |-> -3, h |-> 0],
      [b |-> 1, g |-> -2, h |-> -1] }

\* the constraint a call is made on; a field a variant does not have is 0
ConstraintsOfKind(kind) ==
    [kind : {kind},
     multiplicity : IF kind \in {"vv", "ev"} THEN 1..MaxPotMult ELSE {0},
     eps_x : IF kind = "ee" THEN {1} ELSE {0},
     minimum_distance : 0..MaxMinDist]

Kinds == {"vv", "ev", "ee", "fv", "pv"}

\* what the distance-type classifier of a variant's primitive pair can
\* return at the current positions (two of its values; none for a pair
\* without distance types)
TypesAt(kind) ==
    CASE kind = "ee" -> {"EA_EB", "EA0_EB0"}
      [] kind = "ev" -> {"P_E", "P_E0"}
      [] kind = "fv" -> {"P_T", "P_T0"}
      [] OTHER -> {"none"}

EnvsOfKind(kind) ==
    { e \in [c : ConstraintsOfKind(kind),
             dhat : 1..MaxDhat,
             dist : 1..MaxDist,
             g : {-1, 2},
             h : {-1, 1},
             m : IF kind = "ee" THEN 0..MaxMoll ELSE {0},
             mg : IF kind = "ee" THEN {-1, 1} ELSE {0},
             mh : IF kind = "ee" THEN {-1, 1} ELSE {0},
             dtype : TypesAt(kind),
             oracle : BarrierOracle,
             ndebug : BOOLEAN] :
        e.dist > e.c.minimum_distance }

Envs == UNION { EnvsOfKind(k) : k \in Kinds }

\* ipc::barrier and its two derivatives: 0 from the activation distance on
Barrier(x, a) == IF x >= a THEN 0 ELSE env.oracle.b
BarrierGradient(x, a) == IF x >= a THEN 0 ELSE env.oracle.g
BarrierHessian(x, a) == IF x >= a THEN 0 ELSE env.oracle.h

\* point_point_distance, point_edge_distance, edge_edge_distance,
\* point_triangle_distance, point_plane_distance: the squared distance
Distance(prim, dtype) == env.dist * env.dist
DistanceGradient(prim, dtype) == env.g
DistanceHessian(prim, dtype) == env.h

\* edge_edge_distance_type
EdgeEdgeDistanceType == env.dtype

\* edge_edge_mollifier and its derivatives
EdgeEdgeMollifier(eps_x) == env.m
EdgeEdgeMollifierGradient(eps_x) == env.mg
EdgeEdgeMollifierHessian(eps_x) == env.mh

\* project_to_psd on a 1x1 matrix: the negative eigenvalue is clamped to 0
ProjectToPSD(x) == IF x < 0 THEN 0 ELSE x

\* what a call returns, with what it passed on the way: d is the distance
\* handed to the barrier adapter, calls the barrier evaluations
Outcome(op, d, status, value, calls, psd, dtypes) ==
    [op |-> op, d |-> d, status |-> status, value |-> value, calls |-> calls,
     psd |-> psd, dtypes |-> dtypes]

PotentialCommonSquaring(c, distance, dhat) ==
    LET dhat_squared == dhat * dhat
        x == distance * distance - c.minimum_distance * c.minimum_distance
        a == 2 * c.minimum_distance * dhat + dhat_squared
    IN  [value |-> Barrier(x, a), calls |-> {<<"barrier", x, a>>}]

\* CollisionConstraint::compute_potential_common
PotentialCommon(c, distance, dhat) ==
    LET dhat_squared == dhat * dhat
        x == distance - c.minimum_distance * c.minimum_distance
        a == 2 * c.minimum_distance * dhat + dhat_squared
    IN  [value |-> Barrier(x, a), calls |-> {<<"barrier", x, a>>}]

\* CollisionConstraint::compute_potential_gradient_common
GradientCommon(c, distance, distance_grad, dhat) ==
    LET dhat_squared == dhat * dhat
        x == distance - c.minimum_distance * c.minimum_distance
        a == 2 * c.minimum_distance * dhat + dhat_squared
        grad_b == BarrierGradient(x, a)
    IN  [value |-> grad_b * distance_grad,
         calls |-> {<<"barrier_gradient", x, a>>}]

HessianCommonNoAssert(c, distance, distance_grad, distance_hess, dhat, project) ==
    LET dhat_squared == dhat * dhat
        min_dist_squrared == c.minimum_distance * c.minimum_distance
        x == distance - min_dist_squrared
        a == 2 * c.minimum_distance * dhat + dhat_squared
        grad_b == BarrierGradient(x, a)
        hess_b == BarrierHessian(x, a)
    IN  [status |-> "ok",
         value |-> hess_b * distance_grad * distance_grad
                     + (IF project THEN ProjectToPSD(grad_b * distance_hess)
                                   ELSE grad_b * distance_hess),
         calls |-> {<<"barrier_gradient", x, a>>, <<"barrier_hessian", x, a>>},
         psd |-> IF project THEN {grad_b * distance_hess} ELSE {}]

\* CollisionConstraint::compute_potential_hessian_common; the assert aborts
\* the call unless the build defines NDEBUG
HessianCommon(c, distance, distance_grad, distance_hess, dhat, project) ==
    LET dhat_squared == dhat * dhat
        min_dist_squrared == c.minimum_distance * c.minimum_distance
        x == distance - min_dist_squrared
        a == 2 * c.minimum_distance * dhat + dhat_squared
        grad_b == BarrierGradient(x, a)
        hess_b == BarrierHessian(x, a)
        calls == {<<"barrier_gradient", x, a>>, <<"barrier_hessian", x, a>>}
    IN  IF ~env.ndebug /\ ~(hess_b >= 0)
        THEN [status |-> "assert_failed", value |-> 0, calls |-> calls,
              psd |-> {}]
        ELSE [status |-> "ok",
              value |-> hess_b * distance_grad * distance_grad
                          + (IF project THEN ProjectToPSD(grad_b * distance_hess)
                                        ELSE grad_b * distance_hess),
              calls |-> calls,
              psd |-> IF project THEN {grad_b * distance_hess} ELSE {}]

\* the result of a Hessian method that scales what the adapter returns
Scaled(k, r, d, dtypes) ==
    IF r.status = "ok"
    THEN Outcome("hessian", d, "ok", k * r.value, r.calls, r.psd, dtypes)
    ELSE Outcome("hessian", d, r.status, 0, r.calls, r.psd, dtypes)

VVPotentialUnscaled(c, dhat) ==
    LET distance == Distance("point_point", "none")
        r == PotentialCommon(c, distance, dhat)
    IN  Outcome("potential", distance, "ok", r.value, r.calls, {},
                {<<"point_point_distance", "none">>})

\* VertexVertexConstraint::compute_potential
VVPotential(c, dhat) ==
    LET distance == Distance("point_point", "none")
        r == PotentialCommon(c, distance, dhat)
    IN  Outcome("potential", distance, "ok", c.multiplicity * r.value, r.calls, {},
                {<<"point_point_distance", "none">>})

\* VertexVertexConstraint::compute_potential_gradient
VVGradient(c, dhat) ==
    LET distance_grad == DistanceGradient("point_point", "none")
        distance == Distance("point_point", "none")
        r == GradientCommon(c, distance, distance_grad, dhat)
    IN  Outcome("gradient", distance, "ok", c.multiplicity * r.value, r.calls, {},
                {<<"point_point_distance_gradient", "none">>,
                 <<"point_point_distance", "none">>})

\* VertexVertexConstraint::compute_potential_hessian
VVHessian(c, dhat, project) ==
    LET distance == Distance("point_point", "none")
        distance_grad == DistanceGradient("point_point", "none")
        distance_hess == DistanceHessian("point_point", "none")
        r == HessianCommon(c, distance, distance_grad, distance_hess, dhat,
                           project)
    IN  Scaled(c.multiplicity, r, distance,
               {<<"point_point_distance", "none">>,
                <<"point_point_distance_gradient", "none">>,
                <<"point_point_distance_hessian", "none">>})

\* EdgeVertexConstraint::compute_potential
EVPotential(c, dhat) ==
    LET distance == Distance("point_edge", "P_E")
        r == PotentialCommon(c, distance, dhat)
    IN  Outcome("potential", distance, "ok", c.multiplicity * r.value, r.calls, {},
                {<<"point_edge_distance", "P_E">>})

\* EdgeVertexConstraint::compute_potential_gradient
EVGradient(c, dhat) ==
    LET distance_grad == DistanceGradient("point_edge", "P_E")
        distance == Distance("point_edge", "P_E")
        r == GradientCommon(c, distance, distance_grad, dhat)
    IN  Outcome("gradient", distance, "ok", c.multiplicity * r.value, r.calls, {},
                {<<"point_edge_distance_gradient", "P_E">>,
                 <<"point_edge_distance", "P_E">>})

\* EdgeVertexConstraint::compute_potential_hessian
EVHessian(c, dhat, project) ==
    LET distance == Distance("point_edge", "P_E")
        distance_grad == DistanceGradient("point_edge", "P_E")
        distance_hess == DistanceHessian("point_edge", "P_E")
        r == HessianCommon(c, distance, distance_grad, distance_hess, dhat,
                           project)
    IN  Scaled(c.multiplicity, r, distance,
               {<<"point_edge_distance", "P_E">>,
                <<"point_edge_distance_gradient", "P_E">>,
                <<"point_edge_distance_hessian", "P_E">>})

\* EdgeEdgeConstraint::compute_potential; the edge_edge_distance overload
\* without a type classifies the current positions itself
EEPotential(c, dhat) ==
    LET distance == Distance("edge_edge", EdgeEdgeDistanceType)
        r == PotentialCommon(c, distance, dhat)
    IN  Outcome("potential", distance, "ok", EdgeEdgeMollifier(c.eps_x) * r.value,
                r.calls, {}, {<<"edge_edge_distance", EdgeEdgeDistanceType>>})

EEGradientDropB(c, dhat) ==
    LET dtype == EdgeEdgeDistanceType
        distance == Distance("edge_edge", dtype)
        distance_grad == DistanceGradient("edge_edge", dtype)
        mollifier == EdgeEdgeMollifier(c.eps_x)
        mollifier_grad == EdgeEdgeMollifierGradient(c.eps_x)
        x == distance - c.minimum_distance * c.minimum_distance
        a == 2 * c.minimum_distance * dhat + dhat * dhat
        barrier_distance_grad == GradientCommon(c, distance, distance_grad, dhat)
    IN  Outcome("gradient", distance, "ok",
                mollifier_grad + mollifier * barrier_distance_grad.value,
                {<<"barrier", x, a>>} \cup barrier_distance_grad.calls, {},
                {<<"edge_edge_distance", dtype>>,
                 <<"edge_edge_distance_gradient", dtype>>})

\* EdgeEdgeConstraint::compute_potential_gradient
EEGradient(c, dhat) ==
    LET dhat_squared == dhat * dhat
        dtype == EdgeEdgeDistanceType
        distance == Distance("edge_edge", dtype)
        distance_grad == DistanceGradient("edge_edge", dtype)
        mollifier == EdgeEdgeMollifier(c.eps_x)
        mollifier_grad == EdgeEdgeMollifierGradient(c.eps_x)
        x == distance - c.minimum_distance * c.minimum_distance
        a == 2 * c.minimum_distance * dhat + dhat_squared
        b == Barrier(x, a)
        barrier_distance_grad == GradientCommon(c, distance, distance_grad, dhat)
    IN  Outcome("gradient", distance, "ok",
                mollifier_grad * b + mollifier * barrier_distance_grad.value,
                {<<"barrier", x, a>>} \cup barrier_distance_grad.calls, {},
                {<<"edge_edge_distance", dtype>>,
                 <<"edge_edge_distance_gradient", dtype>>})

EEHessianTermwise(c, dhat, project) ==
    LET dtype == EdgeEdgeDistanceType
        distance == Distance("edge_edge", dtype)
        distance_grad == DistanceGradient("edge_edge", dtype)
        distance_hess == DistanceHessian("edge_edge", dtype)
        mollifier == EdgeEdgeMollifier(c.eps_x)
        mollifier_grad == EdgeEdgeMollifierGradient(c.eps_x)
        mollifier_hess == EdgeEdgeMollifierHessian(c.eps_x)
        x == distance - c.minimum_distance * c.minimum_distance
        a == 2 * c.minimum_distance * dhat + dhat * dhat
        b == Barrier(x, a)
        grad_b == BarrierGradient(x, a)
        hess_b == BarrierHessian(x, a)
        rest == mollifier_hess * b
                  + grad_b * (distance_grad * mollifier_grad
                                + mollifier_grad * distance_grad)
                  + mollifier * hess_b * distance_grad * distance_grad
        term == mollifier * grad_b * distance_hess
    IN  Outcome("hessian", distance, "ok",
                rest + (IF project THEN ProjectToPSD(term) ELSE term),
                {<<"barrier", x, a>>, <<"barrier_gradient", x, a>>,
                 <<"barrier_hessian", x, a>>},
                IF project THEN {term} ELSE {},
                {<<"edge_edge_distance", dtype>>,
                 <<"edge_edge_distance_gradient", dtype>>,
                 <<"edge_edge_distance_hessian", dtype>>})

EEHessianFixedType(c, dhat, project) ==
    LET dtype == "EA_EB"
        distance == Distance("edge_edge", dtype)
        distance_grad == DistanceGradient("edge_edge", dtype)
        distance_hess == DistanceHessian("edge_edge", dtype)
        mollifier == EdgeEdgeMollifier(c.eps_x)
        mollifier_grad == EdgeEdgeMollifierGradient(c.eps_x)
        mollifier_hess == EdgeEdgeMollifierHessian(c.eps_x)
        x == distance - c.minimum_distance * c.minimum_distance
        a == 2 * c.minimum_distance * dhat + dhat * dhat
        b == Barrier(x, a)
        grad_b == BarrierGradient(x, a)
        hess_b == BarrierHessian(x, a)
        hess == mollifier_hess * b
                  + grad_b * (distance_grad * mollifier_grad
                                + mollifier_grad * distance_grad)
                  + mollifier * (hess_b * distance_grad * distance_grad
                                   + grad_b * distance_hess)
    IN  Outcome("hessian", distance, "ok",
                IF project THEN ProjectToPSD(hess) ELSE hess,
                {<<"barrier", x, a>>, <<"barrier_gradient", x, a>>,
                 <<"barrier_hessian", x, a>>},
                IF project THEN {hess} ELSE {},
                {<<"edge_edge_distance", dtype>>,
                 <<"edge_edge_distance_gradient", dtype>>,
                 <<"edge_edge_distance_hessian", dtype>>})

\* EdgeEdgeConstraint::compute_potential_hessian
EEHessian(c, dhat, project) ==
    LET dhat_squared == dhat * dhat
        min_dist_squrared == c.minimum_distance * c.minimum_distance
        dtype == EdgeEdgeDistanceType
        distance == Distance("edge_edge", dtype)
        distance_grad == DistanceGradient("edge_edge", dtype)
        distance_hess == DistanceHessian("edge_edge", dtype)
        mollifier == EdgeEdgeMollifier(c.eps_x)
        mollifier_grad == EdgeEdgeMollifierGradient(c.eps_x)
        mollifier_hess == EdgeEdgeMollifierHessian(c.eps_x)
        x == distance - min_dist_squrared
        a == 2 * c.minimum_distance * dhat + dhat_squared
        b == Barrier(x, a)
        grad_b == BarrierGradient(x, a)
        hess_b == BarrierHessian(x, a)
        hess == mollifier_hess * b
                  + grad_b * (distance_grad * mollifier_grad
                                + mollifier_grad * distance_grad)
                  + mollifier * (hess_b * distance_grad * distance_grad
                                   + grad_b * distance_hess)
    IN  Outcome("hessian", distance, "ok",
                IF project THEN ProjectToPSD(hess) ELSE hess,
                {<<"barrier", x, a>>, <<"barrier_gradient", x, a>>,
                 <<"barrier_hessian", x, a>>},
                IF project THEN {hess} ELSE {},
                {<<"edge_edge_distance", dtype>>,
                 <<"edge_edge_distance_gradient", dtype>>,
                 <<"edge_edge_distance_hessian", dtype>>})

\* FaceVertexConstraint::compute_potential
FVPotential(c, dhat) ==
    LET distance == Distance("point_triangle", "P_T")
        r == PotentialCommon(c, distance, dhat)
    IN  Outcome("potential", distance, "ok", r.value, r.calls, {},
                {<<"point_triangle_distance", "P_T">>})

\* FaceVertexConstraint::compute_potential_gradient
FVGradient(c, dhat) ==
    LET distance == Distance("point_triangle", "P_T")
        distance_grad == DistanceGradient("point_triangle", "P_T")
        r == GradientCommon(c, distance, distance_grad, dhat)
    IN  Outcome("gradient", distance, "ok", r.value, r.calls, {},
                {<<"point_triangle_distance", "P_T">>,
                 <<"point_triangle_distance_gradient", "P_T">>})

\* FaceVertexConstraint::compute_potential_hessian
FVHessian(c, dhat, project) ==
    LET distance == Distance("point_triangle", "P_T")
        distance_grad == DistanceGradient("point_triangle", "P_T")
        distance_hess == DistanceHessian("point_triangle", "P_T")
        r == HessianCommon(c, distance, distance_grad, distance_hess, dhat,
                           project)
    IN  Scaled(1, r, distance,
               {<<"point_triangle_distance", "P_T">>,
                <<"point_triangle_distance_gradient", "P_T">>,
                <<"point_triangle_distance_hessian", "P_T">>})

\* PlaneVertexConstraint::compute_potential
PVPotential(c, dhat) ==
    LET distance == Distance("point_plane", "none")
        r == PotentialCommon(c, distance, dhat)
    IN  Outcome("potential", distance, "ok", r.value, r.calls, {},
                {<<"point_plane_distance", "none">>})

\* PlaneVertexConstraint::compute_potential_gradient
PVGradient(c, dhat) ==
    LET distance == Distance("point_plane", "none")
        distance_grad == DistanceGradient("point_plane", "none")
        r == GradientCommon(c, distance, distance_grad, dhat)
    IN  Outcome("gradient", distance, "ok", r.value, r.calls, {},
                {<<"point_plane_distance", "none">>,
                 <<"point_plane_distance_gradient", "none">>})

\* PlaneVertexConstraint::compute_potential_hessian
PVHessian(c, dhat, project) ==
    LET distance == Distance("point_plane", "none")
        distance_grad == DistanceGradient("point_plane", "none")
        distance_hess == DistanceHessian("point_plane", "none")
        r == HessianCommon(c, distance, distance_grad, distance_hess, dhat,
                           project)
    IN  Scaled(1, r, distance,
               {<<"point_plane_distance", "none">>,
                <<"point_plane_distance_gradient", "none">>,
                <<"point_plane_distance_hessian", "none">>})

\* a call returns into res; project notes the flag of a Hessian call
Return(r, project) ==
    /\ pc \in {"ready", "again"}
    /\ pc' = IF pc = "ready" THEN "done" ELSE "done_again"
    /\ res' = [op |-> r.op, d |-> r.d, status |-> r.status, value |-> r.value,
               calls |-> r.calls, psd |-> r.psd, dtypes |-> r.dtypes,
               project |-> project]
    /\ UNCHANGED <<vv_constraints, ev_constraints, ee_constraints,
                   fv_constraints, pv_constraints, ret, env, fin, fout>>

CallVVPotential ==
    env.c.kind = "vv" /\ Return(VVPotential(env.c, env.dhat), FALSE)
CallVVGradient ==
    env.c.kind = "vv" /\ Return(VVGradient(env.c, env.dhat), FALSE)
CallVVHessian ==
    env.c.kind = "vv" /\ \E p \in BOOLEAN : Return(VVHessian(env.c, env.dhat, p), p)
CallEVPotential ==
    env.c.kind = "ev" /\ Return(EVPotential(env.c, env.dhat), FALSE)
CallEVGradient ==
    env.c.kind = "ev" /\ Return(EVGradient(env.c, env.dhat), FALSE)
CallEVHessian ==
    env.c.kind = "ev" /\ \E p \in BOOLEAN : Return(EVHessian(env.c, env.dhat, p), p)
CallEEPotential ==
    env.c.kind = "ee" /\ Return(EEPotential(env.c, env.dhat), FALSE)
CallEEGradient ==
    env.c.kind = "ee" /\ Return(EEGradient(env.c, env.dhat), FALSE)
CallEEHessian ==
    env.c.kind = "ee" /\ \E p \in BOOLEAN : Return(EEHessian(env.c, env.dhat, p), p)
CallFVPotential ==
    env.c.kind = "fv" /\ Return(FVPotential(env.c, env.dhat), FALSE)
CallFVGradient ==
    env.c.kind = "fv" /\ Return(FVGradient(env.c, env.dhat), FALSE)
CallFVHessian ==
    env.c.kind = "fv" /\ \E p \in BOOLEAN : Return(FVHessian(env.c, env.dhat, p), p)
CallPVPotential ==
    env.c.kind = "pv" /\ Return(PVPotential(env.c, env.dhat), FALSE)
CallPVGradient ==
    env.c.kind = "pv" /\ Return(PVGradient(env.c, env.dhat), FALSE)
CallPVHessian ==
    env.c.kind = "pv" /\ \E p \in BOOLEAN : Return(PVHessian(env.c, env.dhat, p), p)

\* between two calls on the same constraint the caller moves the vertices:
\* the distance changes, and so does the distance type where there is one
MovePositions ==
    /\ pc = "done"
    /\ pc' = "again"
    /\ \E d \in 1..MaxDist, t \in TypesAt(env.c.kind) :
          /\ d > env.c.minimum_distance
          /\ IF TypesAt(env.c.kind) = {"none"} THEN d # env.dist
                                               ELSE t # env.dtype
          /\ env' = [env EXCEPT !.dist = d, !.dtype = t]
    /\ res' = Idle
    /\ UNCHANGED <<vv_constraints, ev_constraints, ee_constraints,
                   fv_constraints, pv_constraints, ret, fin, fout>>

\* a constraint, the parameters of a call and the positions it is made at
InitPot ==
    /\ vv_constraints = <<>>
    /\ ev_constraints = <<>>
    /\ ee_constraints = <<>>
    /\ fv_constraints = <<>>
    /\ pv_constraints = <<>>
    /\ ret = NoRet
    /\ pc = "ready"
    /\ env \in Envs
    /\ res = Idle
    /\ fin = Idle
    /\ fout = Idle

NextPot ==
    \/ CallVVPotential
    \/ CallVVGradient
    \/ CallVVHessian
    \/ CallEVPotential
    \/ CallEVGradient
    \/ CallEVHessian
    \/ CallEEPotential
    \/ CallEEGradient
    \/ CallEEHessian
    \/ CallFVPotential
    \/ CallFVGradient
    \/ CallFVHessian
    \/ CallPVPotential
    \/ CallPVGradient
    \/ CallPVHessian
    \/ MovePositions

SpecPot == InitPot /\ [][NextPot]_vars

-----------------------------------------------------------------------------
(* The smooth friction mollifier functions.                                *)
(* A double is modelled by the exact rational <<n, d>> in lowest terms     *)
(* with d > 0; a division by zero gives what IEEE arithmetic gives, the    *)
(* non-finite <<1, 0>> (+inf), <<-1, 0>> (-inf) or <<0, 0>> (NaN).         *)

MaxS == 6        \* largest |s|
MaxEpsv == 3     \* largest epsv

Abs(x) == IF x < 0 THEN -x ELSE x
Sign(x) == IF x < 0 THEN -1 ELSE IF x > 0 THEN 1 ELSE 0

RECURSIVE GCD(_, _)
GCD(a, b) == IF b = 0 THEN a ELSE GCD(b, a % b)

Rat(n, d) ==
    IF d = 0 THEN <<Sign(n), 0>>
    ELSE LET g == GCD(Abs(n), Abs(d))
         IN  <<Sign(d) * (n \div g), Abs(d) \div g>>

RatInt(n) == <<n, 1>>
IsFinite(q) == q[2] # 0
RatNeg(q) == <<-q[1], q[2]>>
RatMul(p, q) ==
    IF IsFinite(p) /\ IsFinite(q) THEN Rat(p[1] * q[1], p[2] * q[2])
    ELSE <<Sign(p[1]) * Sign(q[1]), 0>>
RatDiv(p, q) ==
    IF IsFinite(p) /\ IsFinite(q) THEN Rat(p[1] * q[2], p[2] * q[1])
    ELSE IF IsFinite(q) THEN <<p[1] * (IF q[1] < 0 THEN -1 ELSE 1), 0>>
    ELSE IF IsFinite(p) THEN <<0, 1>>
    ELSE <<0, 0>>
RatAdd(p, q) ==
    IF IsFinite(p) /\ IsFinite(q) THEN Rat(p[1] * q[2] + q[1] * p[2], p[2] * q[2])
    ELSE IF IsFinite(q) THEN p
    ELSE IF IsFinite(p) THEN q
    ELSE IF p = q THEN p
    ELSE <<0, 0>>

\* f0 for |s| < epsv: -s^3 / (3 epsv^2) + s^2 / epsv + epsv / 3
F0Inside(s, epsv) ==
    RatAdd(RatAdd(RatNeg(RatDiv(RatInt(s * s * s), RatInt(3 * epsv * epsv))),
                  RatDiv(RatInt(s * s), RatInt(epsv))),
           RatDiv(RatInt(epsv), RatInt(3)))

\* f0 for |s| >= epsv: s
F0Outside(s, epsv) == RatInt(s)

\* smooth_friction_f0
SmoothFrictionF0(s, epsv) ==
    IF Abs(s) < epsv THEN F0Inside(s, epsv) ELSE F0Outside(s, epsv)

\* f1 / s for |s| < epsv: -s / epsv^2 + 2 / epsv
F1OverXInside(s, epsv) ==
    RatAdd(RatNeg(RatDiv(RatInt(s), RatInt(epsv * epsv))),
           RatDiv(RatInt(2), RatInt(epsv)))

\* f1 / s for |s| >= epsv: 1 / s
F1OverXOutside(s, epsv) == RatDiv(RatInt(1), RatInt(s))

\* smooth_friction_f1_over_x
SmoothFrictionF1OverX(s, epsv) ==
    IF Abs(s) < epsv THEN F1OverXInside(s, epsv) ELSE F1OverXOutside(s, epsv)

\* (f1' s - f1) / s^3 for |s| < epsv: -1 / (s epsv^2)
F2Inside(s, epsv) == RatNeg(RatDiv(RatInt(1), RatInt(s * epsv * epsv)))

\* (f1' s - f1) / s^3 for |s| >= epsv: -1 / s^3
F2Outside(s, epsv) == RatNeg(RatDiv(RatInt(1), RatInt(s * s * s)))

\* smooth_friction_f2_x_minus_f1_over_x3
SmoothFrictionF2XMinusF1OverX3(s, epsv) ==
    IF Abs(s) < epsv THEN F2Inside(s, epsv) ELSE F2Outside(s, epsv)

FricReturn(fn, value) ==
    /\ pc' = "done"
    /\ fout' = [fn |-> fn, value |-> value]
    /\ UNCHANGED <<vv_constraints, ev_constraints, ee_constraints,
                   fv_constraints, pv_constraints, ret, env, res, fin>>

CallF0 ==
    /\ pc = "ready"
    /\ FricReturn("f0", SmoothFrictionF0(fin.s, fin.epsv))

CallF1OverX ==
    /\ pc = "ready"
    /\ FricReturn("f1_over_x", SmoothFrictionF1OverX(fin.s, fin.epsv))

CallF2XMinusF1OverX3 ==
    /\ pc = "ready"
    /\ FricReturn("f2_x_minus_f1_over_x3",
                  SmoothFrictionF2XMinusF1OverX3(fin.s, fin.epsv))

\* the arguments of a call: a speed s and a mollifier parameter epsv > 0
InitFric ==
    /\ vv_constraints = <<>>
    /\ ev_constraints = <<>>
    /\ ee_constraints = <<>>
    /\ fv_constraints = <<>>
    /\ pv_constraints = <<>>
    /\ ret = NoRet
    /\ pc = "ready"
    /\ env = Idle
    /\ res = Idle
    /\ fin \in [s : (-MaxS)..MaxS, epsv : 1..MaxEpsv]
    /\ fout = Idle

NextFric ==
    \/ CallF0
    \/ CallF1OverX
    \/ CallF2XMinusF1OverX3

SpecFric == InitFric /\ [][NextFric]_vars

-----------------------------------------------------------------------------
(* Properties of the constraint set *)

Tagged(kind, s) == [i \in 1..Len(s) |-> [kind |-> kind, pos |-> i - 1, val |-> s[i]]]

\* the stored constraints in the order VertexVertex, EdgeVertex, EdgeEdge,
\* FaceVertex, PlaneVertex, each sequence in insertion order
AllConstraints ==
    Tagged("vv", vv_constraints) \o Tagged("ev", ev_constraints)
        \o Tagged("ee", ee_constraints) \o Tagged("fv", fv_constraints)
        \o Tagged("pv", pv_constraints)

Weight(c) == IF c.kind \in {"vv", "ev"} THEN c.val.multiplicity ELSE 1

RECURSIVE WeightSum(_)
WeightSum(s) == IF s = <<>> THEN 0 ELSE Weight(Head(s)) + WeightSum(Tail(s))

AllMultiplicityOne ==
    \A i \in 1..Len(AllConstraints) : Weight(AllConstraints[i]) = 1

SameElement(r, c) == r.kind = c.kind /\ r.pos = c.pos /\ r.val = c.val

\* C1: size() is the number of stored instances, num_constraints() is the
\* multiplicity-weighted count (weight 1 for EdgeEdge, FaceVertex and
\* PlaneVertex), num_constraints() >= size(), and the two are equal exactly
\* when every VertexVertex and EdgeVertex multiplicity is 1.
C1_Counts ==
    /\ Size = Len(AllConstraints)
    /\ NumConstraints = WeightSum(AllConstraints)
    /\ NumConstraints >= Size
    /\ (NumConstraints = Size) <=> AllMultiplicityOne
    /\ ret.op = "size" => ret.val = Len(AllConstraints)
    /\ ret.op = "num_constraints" => ret.val = WeightSum(AllConstraints)

C1_Witness ==
    /\ ret.op = "num_constraints"
    /\ ret.val > Size
    /\ \E i \in 1..Len(vv_constraints) : vv_constraints[i].multiplicity > 1
    /\ \E i \in 1..Len(ev_constraints) : ev_constraints[i].multiplicity = 1
    /\ ee_constraints # <<>>
    /\ fv_constraints # <<>>

\* C2: for every idx < size(), both overloads of operator[] return the
\* idx-th element of the concatenation of the five sequences in the order
\* VertexVertex, EdgeVertex, EdgeEdge, FaceVertex, PlaneVertex, so the
\* indices 0..size()-1 visit every stored constraint exactly once.
C2_IndexOrder ==
    /\ \A idx \in 0..(Size - 1) :
          /\ Index(idx).status = "ok"
          /\ SameElement(Index(idx), AllConstraints[idx + 1])
          /\ IndexConst(idx).status = "ok"
          /\ SameElement(IndexConst(idx), AllConstraints[idx + 1])
    /\ \A i, j \in 0..(Size - 1) :
          (Index(i).kind = Index(j).kind /\ Index(i).pos = Index(j).pos) => i = j
    /\ (ret.op \in {"index", "index_const"} /\ ret.idx < Size) =>
          ret.status = "ok" /\ SameElement(ret, AllConstraints[ret.idx + 1])

C2_Witness ==
    /\ ret.op = "index_const"
    /\ ret.status = "ok"
    /\ ret.kind = "pv"
    /\ ret.pos = 1
    /\ vv_constraints # <<>>
    /\ ev_constraints = <<>>
    /\ fv_constraints = <<>>

LookupFailed(r) == r.op \in {"index", "index_const"} /\ r.status = "out_of_range"

C3_State ==
    /\ \A idx \in IdxInputs :
          /\ (Index(idx).status = "out_of_range") <=> (idx >= Size)
          /\ (IndexConst(idx).status = "out_of_range") <=> (idx >= Size)
          /\ ~Index(idx).wrapped
          /\ ~IndexConst(idx).wrapped
    /\ ret.op \in {"index", "index_const"} =>
          /\ (ret.status = "out_of_range") <=> (ret.idx >= Size)
          /\ ~ret.wrapped

\* C3: operator[](idx) fails with out_of_range exactly when idx >= size(),
\* no subtraction of a sequence length wraps around, and a failed lookup
\* leaves the five sequences unchanged.
C3_OutOfRange ==
    /\ []C3_State
    /\ [][LookupFailed(ret') => UNCHANGED seqs]_vars

C3_Witness ==
    /\ ret.op = "index"
    /\ ret.status = "out_of_range"
    /\ ret.idx = Size
    /\ Size > 0
    /\ pv_constraints # <<>>

\* C4: after clear() all five sequences are empty, so empty() holds,
\* size() and num_constraints() are 0 and operator[] fails for every index;
\* and in every state empty() holds exactly when size() is 0.
C4_Clear ==
    /\ ret.op = "clear" =>
          /\ seqs = <<(<<>>), (<<>>), (<<>>), (<<>>), (<<>>)>>
          /\ Empty
          /\ Size = 0
          /\ NumConstraints = 0
          /\ \A idx \in IdxInputs :
                Index(idx).status = "out_of_range"
                    /\ IndexConst(idx).status = "out_of_range"
    /\ Empty <=> (Size = 0)
    /\ ret.op = "empty" => (ret.val <=> (Size = 0))

C4_Witness ==
    /\ ret.op = "clear"
    /\ ret.val = MaxSize
    /\ Empty

-----------------------------------------------------------------------------
(* Properties of the barrier potential *)

Returned == pc \in {"done", "done_again"} /\ res # Idle /\ env # Idle

\* the Euclidean distance exceeds the minimum distance by more than dhat
BeyondDhat == env.dist > env.c.minimum_distance + env.dhat

\* C5: at a distance strictly greater than minimum_distance + dhat, the
\* potential, the gradient and the Hessian of every constraint variant are
\* zero, with and without projection, for any multiplicity and mollifier.
C5_InactiveZero ==
    (Returned /\ BeyondDhat) => (res.status = "ok" /\ res.value = 0)

C5_Witness ==
    /\ Returned
    /\ BeyondDhat
    /\ env.c.kind = "ee"
    /\ res.op = "gradient"
    /\ env.m > 0
    /\ env.mg # 0
    /\ res.value = 0

Activation == 2 * env.c.minimum_distance * env.dhat + env.dhat * env.dhat

BarrierCallsOf(op, kind) ==
    CASE op = "potential" -> {"barrier"}
      [] op = "gradient" /\ kind # "ee" -> {"barrier_gradient"}
      [] op = "gradient" /\ kind = "ee" -> {"barrier", "barrier_gradient"}
      [] op = "hessian" /\ kind # "ee" -> {"barrier_gradient", "barrier_hessian"}
      [] op = "hessian" /\ kind = "ee" ->
            {"barrier", "barrier_gradient", "barrier_hessian"}

\* C6 as claimed: the adapter squares the distance d it is given, so every
\* barrier evaluation is at (d*d - minimum_distance^2, 2*minimum_distance*dhat
\* + dhat^2).
C6_AdapterSquares ==
    Returned =>
        \A call \in res.calls :
            /\ call[2] = res.d * res.d
                           - env.c.minimum_distance * env.c.minimum_distance
            /\ call[3] = Activation

\* C6 as amended: the adapter does not square the distance d it is given;
\* barrier, barrier' and barrier'' are all evaluated at
\* (d - minimum_distance^2, 2*minimum_distance*dhat + dhat^2), and
\* compute_potential_common returns the barrier value there.
C6_AdapterOffsets ==
    Returned =>
        /\ \A call \in res.calls :
            /\ call[2] = res.d - env.c.minimum_distance * env.c.minimum_distance
            /\ call[3] = Activation
        /\ {call[1] : call \in res.calls} = BarrierCallsOf(res.op, env.c.kind)
        /\ (res.op = "potential" /\ env.c.kind \in {"fv", "pv"}) =>
              res.value =
                  Barrier(res.d - env.c.minimum_distance * env.c.minimum_distance,
                          Activation)

C6_Witness ==
    /\ Returned
    /\ res.op = "hessian"
    /\ env.c.kind = "pv"
    /\ env.c.minimum_distance > 0
    /\ res.d > 1
    /\ res.d - env.c.minimum_distance * env.c.minimum_distance < Activation
    /\ res.status = "ok"
    /\ res.value # 0

\* the call of res made on constraint c instead
SameCallOn(c) ==
    CASE c.kind = "vv" /\ res.op = "potential" -> VVPotential(c, env.dhat)
      [] c.kind = "vv" /\ res.op = "gradient" -> VVGradient(c, env.dhat)
      [] c.kind = "vv" /\ res.op = "hessian" -> VVHessian(c, env.dhat, res.project)
      [] c.kind = "ev" /\ res.op = "potential" -> EVPotential(c, env.dhat)
      [] c.kind = "ev" /\ res.op = "gradient" -> EVGradient(c, env.dhat)
      [] c.kind = "ev" /\ res.op = "hessian" -> EVHessian(c, env.dhat, res.project)
      [] c.kind = "ee" /\ res.op = "potential" -> EEPotential(c, env.dhat)
      [] c.kind = "ee" /\ res.op = "gradient" -> EEGradient(c, env.dhat)
      [] c.kind = "ee" /\ res.op = "hessian" -> EEHessian(c, env.dhat, res.project)
      [] c.kind = "fv" /\ res.op = "potential" -> FVPotential(c, env.dhat)
      [] c.kind = "fv" /\ res.op = "gradient" -> FVGradient(c, env.dhat)
      [] c.kind = "fv" /\ res.op = "hessian" -> FVHessian(c, env.dhat, res.project)
      [] c.kind = "pv" /\ res.op = "potential" -> PVPotential(c, env.dhat)
      [] c.kind = "pv" /\ res.op = "gradient" -> PVGradient(c, env.dhat)
      [] c.kind = "pv" /\ res.op = "hessian" -> PVHessian(c, env.dhat, res.project)

WithMultiplicity(k) == [env.c EXCEPT !.multiplicity = k]

\* C7: a VertexVertex or EdgeVertex result is its multiplicity times the
\* result for the same constraint with multiplicity 1; FaceVertex,
\* PlaneVertex and EdgeEdge results do not depend on a multiplicity; a
\* VertexVertex constraint of multiplicity 3 has potential 0 at distance
\* minimum_distance + dhat and 3 times the (positive) barrier value at
\* distance minimum_distance + dhat/2.
C7_Multiplicity ==
    Returned =>
        /\ env.c.kind \in {"vv", "ev"} =>
              /\ res.status = SameCallOn(WithMultiplicity(1)).status
              /\ res.status = "ok" =>
                    res.value = env.c.multiplicity
                                  * SameCallOn(WithMultiplicity(1)).value
        /\ env.c.kind \in {"ee", "fv", "pv"} =>
              \A k \in 1..MaxPotMult :
                  /\ res.status = SameCallOn(WithMultiplicity(k)).status
                  /\ res.value = SameCallOn(WithMultiplicity(k)).value
        /\ (env.c.kind = "vv" /\ env.c.multiplicity = 3 /\ res.op = "potential") =>
              /\ env.dist = env.c.minimum_distance + env.dhat => res.value = 0
              /\ 2 * env.dist = 2 * env.c.minimum_distance + env.dhat =>
                    /\ res.value =
                         3 * Barrier(env.dist * env.dist
                                       - env.c.minimum_distance
                                           * env.c.minimum_distance,
                                     Activation)
                    /\ res.value > 0

C7_Witness ==
    /\ Returned
    /\ env.c.kind = "vv"
    /\ env.c.multiplicity = 3
    /\ env.c.minimum_distance > 0
    /\ res.op = "potential"
    /\ 2 * env.dist = 2 * env.c.minimum_distance + env.dhat
    /\ res.value = 3 * env.oracle.b
    /\ res.value > 0

\* barrier_hessian returned a negative value during the call
NegativeHessB ==
    \E call \in res.calls :
        call[1] = "barrier_hessian" /\ BarrierHessian(call[2], call[3]) < 0

\* C8 as claimed: in every variant a Hessian call in which barrier'' is
\* negative ends in an assertion failure.
C8_AllAssert ==
    (Returned /\ res.op = "hessian" /\ NegativeHessB) =>
        res.status = "assert_failed"

\* C8 as amended: a Hessian call in which barrier'' is negative ends in an
\* assertion failure exactly for VertexVertex, EdgeVertex, FaceVertex and
\* PlaneVertex in a build that compiles assertions in; EdgeEdge evaluates
\* barrier'' without checking it and returns a Hessian, as does every
\* variant in a build with NDEBUG; no other call fails.
C8_CommonAsserts ==
    Returned =>
        (res.status = "assert_failed"
            <=> /\ res.op = "hessian"
                /\ NegativeHessB
                /\ env.c.kind \in {"vv", "ev", "fv", "pv"}
                /\ ~env.ndebug)

C8_Witness ==
    /\ Returned
    /\ res.op = "hessian"
    /\ NegativeHessB
    /\ env.c.kind = "fv"
    /\ ~env.ndebug
    /\ res.status = "assert_failed"

\* the barrier derivatives and the primitives' values of the call of res
ArgX == res.d - env.c.minimum_distance * env.c.minimum_distance
ValB == Barrier(ArgX, Activation)
GradB == BarrierGradient(ArgX, Activation)
HessB == BarrierHessian(ArgX, Activation)

\* the factor of the unmollified variants: the multiplicity where present
Factor == IF env.c.kind \in {"vv", "ev"} THEN env.c.multiplicity ELSE 1

\* hess_m*B + B'*(grad_d*grad_m^T + grad_m*grad_d^T)
\*   + m*(B''*grad_d*grad_d^T + B'*hess_d)
EdgeEdgeSum ==
    env.mh * ValB + GradB * (env.g * env.mg + env.mg * env.g)
        + env.m * (HessB * env.g * env.g + GradB * env.h)

\* C11: with project_hessian_to_psd, the VertexVertex, EdgeVertex,
\* FaceVertex and PlaneVertex Hessian is barrier''*grad_d*grad_d^T
\* + project_to_psd(barrier'*hess_d), times the multiplicity where present,
\* with project_to_psd applied to barrier'*hess_d alone; the EdgeEdge Hessian
\* is project_to_psd applied once to the whole sum; without
\* project_hessian_to_psd no variant calls project_to_psd.
C11_Projection ==
    (Returned /\ res.status = "ok") =>
        /\ res.op # "hessian" => res.psd = {}
        /\ (res.op = "hessian" /\ ~res.project) =>
              /\ res.psd = {}
              /\ env.c.kind # "ee" =>
                    res.value = Factor * (HessB * env.g * env.g + GradB * env.h)
              /\ env.c.kind = "ee" => res.value = EdgeEdgeSum
        /\ (res.op = "hessian" /\ res.project /\ env.c.kind # "ee") =>
              /\ res.psd = {GradB * env.h}
              /\ res.value =
                    Factor * (HessB * env.g * env.g
                                + ProjectToPSD(GradB * env.h))
        /\ (res.op = "hessian" /\ res.project /\ env.c.kind = "ee") =>
              /\ res.psd = {EdgeEdgeSum}
              /\ res.value = ProjectToPSD(EdgeEdgeSum)

\* an EdgeEdge Hessian whose whole sum is indefinite although its
\* m*B'*hess_d addend is not: projecting that addend alone differs
C11_Witness ==
    /\ Returned
    /\ res.op = "hessian"
    /\ res.project
    /\ env.c.kind = "ee"
    /\ env.m > 0
    /\ EdgeEdgeSum < 0
    /\ env.m * GradB * env.h > 0
    /\ res.psd = {EdgeEdgeSum}
    /\ res.value = 0

\* the primitive of each variant and the type its calls are given
PrimitiveOf(kind) ==
    CASE kind = "vv" -> "point_point"
      [] kind = "ev" -> "point_edge"
      [] kind = "ee" -> "edge_edge"
      [] kind = "fv" -> "point_triangle"
      [] kind = "pv" -> "point_plane"

ExpectedType(kind) ==
    CASE kind = "ee" -> env.dtype
      [] kind = "ev" -> "P_E"
      [] kind = "fv" -> "P_T"
      [] OTHER -> "none"

\* the distance primitives a call evaluates
PrimitiveCallsOf(op, kind) ==
    LET p == PrimitiveOf(kind)
        dist == {p \o "_distance"}
        grad == {p \o "_distance_gradient"}
        hess == {p \o "_distance_hessian"}
    IN  CASE op = "potential" -> dist
          [] op = "gradient" -> dist \cup grad
          [] op = "hessian" -> dist \cup grad \cup hess

C12_State ==
    Returned =>
        /\ {call[1] : call \in res.dtypes} = PrimitiveCallsOf(res.op, env.c.kind)
        /\ \A call \in res.dtypes : call[2] = ExpectedType(env.c.kind)

\* C12: every EdgeEdge call gives the distance, its gradient and its Hessian
\* the one distance type the classifier returns at the current positions,
\* also on a second call after the vertices moved; EdgeVertex always uses
\* P_E and FaceVertex P_T whatever the positions (VertexVertex and
\* PlaneVertex have no type); and no step changes the constraint's indices,
\* multiplicity, eps_x or minimum distance.
C12_TypePerCall ==
    /\ []C12_State
    /\ [][env'.c = env.c]_vars

\* a second EdgeEdge Hessian call, made after the vertices moved to
\* positions of another distance type
C12_Witness ==
    /\ pc = "done_again"
    /\ res # Idle
    /\ env.c.kind = "ee"
    /\ res.op = "hessian"
    /\ env.dtype = "EA0_EB0"
    /\ res.dtypes = {<<"edge_edge_distance", "EA0_EB0">>,
                     <<"edge_edge_distance_gradient", "EA0_EB0">>,
                     <<"edge_edge_distance_hessian", "EA0_EB0">>}

-----------------------------------------------------------------------------
(* Properties of the friction mollifier functions *)

FricReturned == pc = "done" /\ fout # Idle /\ fin # Idle

InsideOf(fn, s, epsv) ==
    CASE fn = "f0" -> F0Inside(s, epsv)
      [] fn = "f1_over_x" -> F1OverXInside(s, epsv)
      [] fn = "f2_x_minus_f1_over_x3" -> F2Inside(s, epsv)

OutsideOf(fn, s, epsv) ==
    CASE fn = "f0" -> F0Outside(s, epsv)
      [] fn = "f1_over_x" -> F1OverXOutside(s, epsv)
      [] fn = "f2_x_minus_f1_over_x3" -> F2Outside(s, epsv)

\* C9: each of the three functions returns a finite value at s = 0, where
\* the |s| < epsv branch is taken, without dividing by zero.
C9_FiniteAtZero ==
    (FricReturned /\ fin.s = 0) => IsFinite(fout.value)

\* C10: at both branch boundaries s = epsv and s = -epsv the inside-branch
\* formula and the outside-branch formula of each function agree (the
\* function returns the outside one there); f0(epsv, epsv) = epsv and
\* f0(2 epsv, epsv) = 2 epsv.
C10_BoundaryContinuity ==
    FricReturned =>
        /\ Abs(fin.s) = fin.epsv =>
              /\ fout.value = OutsideOf(fout.fn, fin.s, fin.epsv)
              /\ InsideOf(fout.fn, fin.s, fin.epsv)
                    = OutsideOf(fout.fn, fin.s, fin.epsv)
        /\ (fout.fn = "f0" /\ fin.s = fin.epsv) => fout.value = RatInt(fin.epsv)
        /\ (fout.fn = "f0" /\ fin.s = 2 * fin.epsv) =>
              fout.value = RatInt(2 * fin.epsv)

====
